---- MODULE Spec2Model ----
(***************************************************************************)
(* Model of the page-enhancement script of the Level Up site, which the    *)
(* repository holds twice: src/assets/js/main.js ("main") and              *)
(* src/unnamed/part_000 ("part").  The variable impl says which of the two *)
(* files is loaded; where the two differ the handler has two definitions.  *)
(* One action is one event handler (or one deferred callback) run to       *)
(* completion, with every listener the same event reaches.                 *)
(***************************************************************************)
EXTENDS Integers, Sequences, FiniteSets, TLC

\* ---------------------------------------------------------------- bounds
MaxTabs == 3
MaxLen == 5
MaxTimers == 2
NumTargets == 2
MaxEntries == 2
NumReveal == 2
NumMeters == 2
NumSections == 2
NumLinks == 4

\* ------------------------------------------------------ program constants
NavFocusDelay == 50
AnchorFocusDelayMain == 380
AnchorFocusDelayPart == 400
SubmitDelay == 1200
MeterDelayMain == 80
MeterDelayPart == 100

VARIABLES
  impl,          \* "main" (src/assets/js/main.js) or "part" (src/unnamed/part_000)
  noMotion,      \* matchMedia('(prefers-reduced-motion: reduce)').matches
  present,       \* the looked-up elements the document holds
  markup,        \* the authored state: [open, sel, ttab, reveals, widths, ...]
  focus,         \* document.activeElement, as <<kind, index>>
  timers,        \* pending setTimeout callbacks, in scheduling order
  thrown,        \* some handler or callback ended in an uncaught TypeError
  lastOp,        \* the handler that ran last: [op, n, k]
  \* 1. mobile navigation
  expanded, toggleLabel, navOpen, navHidden,
  \* 4. anchor scroll
  targetTabindex, scrolledTo, prevented,
  \* 2. sticky call-to-action bar
  barVisible, ctaFlag, stickyObserving, dismissListener,
  \* 3. tab group
  tabCount, panels, ariaSelected, tabindex, panelHidden, panelActive,
  \* 5. form
  value, checked, errs, ariaInvalid, errVisible, errText, tried,
  btnDisabled, btnLabel, btnBusy, btnHidden, groupsHidden, successVisible,
  \* 7. scroll reveal
  styleInjected, revealClass, revealed, revealObserved,
  \* 6. score meters
  meterWidth, meterTransition, meterObserved, meterTargets,
  \* 8. active navigation link
  ariaCurrent, activeObserving

commonVars == <<impl, noMotion, present, markup, focus, timers, thrown, lastOp>>
navVars    == <<expanded, toggleLabel, navOpen, navHidden>>
anchorVars == <<targetTabindex, scrolledTo, prevented>>
stickyVars == <<barVisible, ctaFlag, stickyObserving, dismissListener>>
tabVars    == <<tabCount, panels, ariaSelected, tabindex, panelHidden, panelActive>>
formVars   == <<value, checked, errs, ariaInvalid, errVisible, errText, tried,
                btnDisabled, btnLabel, btnBusy, btnHidden, groupsHidden, successVisible>>
revealVars == <<styleInjected, revealClass, revealed, revealObserved>>
meterVars  == <<meterWidth, meterTransition, meterObserved, meterTargets>>
activeVars == <<ariaCurrent, activeObserving>>
vars == <<commonVars, navVars, anchorVars, stickyVars, tabVars, formVars, revealVars, meterVars, activeVars>>

Impls == {"main", "part"}
NoFocus == <<"none", 0>>
Op(o, n, k) == [op |-> o, n |-> n, k |-> k]

\* ------------------------------------------------------------ timers
\* setTimeout(fn, delay): the callback joins the pending list.
Schedule(kind, delay, arg) == Append(timers, [kind |-> kind, delay |-> delay, arg |-> arg])

\* A pending callback may run once no callback scheduled before it with a
\* delay that is not longer is still pending (timers expire in time order,
\* ties in scheduling order).
CanFire(k) ==
  /\ k \in 1..Len(timers)
  /\ \A j \in 1..(k - 1) : timers[j].delay > timers[k].delay

Without(k) == [j \in 1..(Len(timers) - 1) |-> IF j < k THEN timers[j] ELSE timers[j + 1]]

\* ------------------------------------------------ 1. mobile navigation
NavActive == "menu-toggle" \in present /\ "mobile-nav" \in present

AnchorFocusDelay == IF impl = "main" THEN AnchorFocusDelayMain ELSE AnchorFocusDelayPart

\* open(): the four attribute writes; the deferred focus is scheduled by
\* the caller's timers' (see OpenTimers).
open ==
  /\ expanded' = "true"
  /\ toggleLabel' = "close"
  /\ navOpen' = TRUE
  /\ navHidden' = "false"

OpenTimers == IF "nav-link" \in present THEN Schedule("navFocus", NavFocusDelay, 0) ELSE timers

\* close() that leaves the panel's is-open class.
closeKeepClass ==
  /\ expanded' = "false"
  /\ toggleLabel' = "open"
  /\ UNCHANGED navOpen
  /\ navHidden' = "true"

close ==
  /\ expanded' = "false"
  /\ toggleLabel' = "open"
  /\ navOpen' = FALSE
  /\ navHidden' = "true"

\* The document-level click listener, for a click whose target is outside
\* both the trigger and the panel.
DocumentClickOutside == IF NavActive THEN close ELSE UNCHANGED navVars

\* Click on the trigger whose document-level listener closes as well.
ToggleClickThenClose ==
  /\ NavActive
  /\ close
  /\ timers' = IF expanded = "true" THEN timers ELSE OpenTimers
  /\ "nav-link" \in present /\ expanded # "true" => Len(timers) < MaxTimers
  /\ focus' \in {focus, <<"toggle", 0>>}
  /\ lastOp' = Op("toggleClick", 0, expanded)
  /\ UNCHANGED <<impl, noMotion, present, markup, thrown>>
  /\ UNCHANGED <<anchorVars, stickyVars, tabVars, formVars, revealVars, meterVars, activeVars>>

\* Click on the trigger: the trigger's listener, then the document's (which
\* does nothing, the target being inside the trigger).  Whether a pointer
\* click moves focus to a button is the browser's choice.
ToggleClick ==
  /\ NavActive
  /\ IF expanded = "true"
       THEN close /\ timers' = timers
       ELSE /\ "nav-link" \in present => Len(timers) < MaxTimers
            /\ open
            /\ timers' = OpenTimers
  /\ focus' \in {focus, <<"toggle", 0>>}
  /\ lastOp' = Op("toggleClick", 0, expanded)
  /\ UNCHANGED <<impl, noMotion, present, markup, thrown>>
  /\ UNCHANGED <<anchorVars, stickyVars, tabVars, formVars, revealVars, meterVars, activeVars>>

\* The Escape listener without btn.focus().
EscapeKeyNoFocus ==
  /\ NavActive
  /\ IF expanded = "true" THEN close ELSE UNCHANGED navVars
  /\ lastOp' = Op("escape", 0, expanded)
  /\ UNCHANGED <<impl, noMotion, present, markup, focus, timers, thrown>>
  /\ UNCHANGED <<anchorVars, stickyVars, tabVars, formVars, revealVars, meterVars, activeVars>>

\* The Escape listener that also cancels the deferred focus of open().
EscapeKeyCancel ==
  /\ NavActive
  /\ IF expanded = "true"
       THEN close /\ focus' = <<"toggle", 0>>
       ELSE UNCHANGED <<navVars, focus>>
  /\ timers' = SelectSeq(timers, LAMBDA x : x.kind # "navFocus")
  /\ lastOp' = Op("escape", 0, expanded)
  /\ UNCHANGED <<impl, noMotion, present, markup, thrown>>
  /\ UNCHANGED <<anchorVars, stickyVars, tabVars, formVars, revealVars, meterVars, activeVars>>

\* keydown on the document with key Escape.
EscapeKey ==
  /\ NavActive
  /\ IF expanded = "true"
       THEN close /\ focus' = <<"toggle", 0>>
       ELSE UNCHANGED <<navVars, focus>>
  /\ lastOp' = Op("escape", 0, expanded)
  /\ UNCHANGED <<impl, noMotion, present, markup, timers, thrown>>
  /\ UNCHANGED <<anchorVars, stickyVars, tabVars, formVars, revealVars, meterVars, activeVars>>

\* A click on something that has no listener of its own and lies outside
\* the trigger and the panel.
OutsideClick ==
  /\ NavActive
  /\ close
  /\ lastOp' = Op("outsideClick", 0, expanded)
  /\ UNCHANGED <<impl, noMotion, present, markup, focus, timers, thrown>>
  /\ UNCHANGED <<anchorVars, stickyVars, tabVars, formVars, revealVars, meterVars, activeVars>>

\* The deferred first.focus() of open().  In an open panel the link takes
\* the focus; whether a link in a closed panel can take it depends on how
\* the stylesheet, which the repository does not hold, hides the panel.
NavFocusTimer(k) ==
  /\ CanFire(k)
  /\ timers[k].kind = "navFocus"
  /\ timers' = Without(k)
  /\ focus' \in (IF navOpen THEN {<<"navlink", 0>>} ELSE {focus, <<"navlink", 0>>})
  /\ lastOp' = Op("navFocusTimer", 0, expanded)
  /\ UNCHANGED <<impl, noMotion, present, markup, thrown>>
  /\ UNCHANGED <<navVars, anchorVars, stickyVars, tabVars, formVars, revealVars, meterVars, activeVars>>

\* ------------------------------------------------------ 4. anchor scroll
Targets == 1..NumTargets
\* The fragment of the clicked link: empty ("#"), the id of no element, a
\* link that is no same-page link, or the id of target t.
Fragments == {"empty", "missing", "external", "target"}

\* The anchor listener that calls preventDefault before it looks the
\* destination up.
AnchorClickPreventFirst(inNav, frag, t) ==
  LET found == frag = "target"
      \* is-open as the anchor listener reads it, after the link's close
      openNow == IF inNav /\ NavActive THEN FALSE ELSE navOpen
      needToggle == found /\ "mobile-nav" \in present /\ openNow
      throws == needToggle /\ "menu-toggle" \notin present
      \* toggle.click() runs the trigger's listener, which opens when the
      \* expanded indicator is not "true"
      reopens == needToggle /\ NavActive /\ expanded # "true" /\ "nav-link" \in present
      afterToggle == IF reopens THEN Schedule("navFocus", NavFocusDelay, 0) ELSE timers
  IN
  /\ inNav => "mobile-nav" \in present /\ "nav-link" \in present
  /\ ~inNav => "link" \in present
  /\ t \in Targets
  /\ ~found => t = 1
  /\ found => Len(timers) + (IF reopens THEN 1 ELSE 0) < MaxTimers
  /\ prevented' = (frag # "external")
  /\ thrown' = (thrown \/ throws)
  /\ IF NavActive THEN close ELSE UNCHANGED navVars
  /\ IF found /\ ~throws
       THEN /\ scrolledTo' = t
            /\ targetTabindex' = [targetTabindex EXCEPT ![t] = IF @ = "none" THEN "-1" ELSE @]
            /\ timers' = Append(afterToggle,
                                [kind |-> "anchorFocus",
                                 delay |-> IF noMotion THEN 0 ELSE AnchorFocusDelay,
                                 arg |-> t])
       ELSE UNCHANGED <<scrolledTo, targetTabindex, timers>>
  /\ lastOp' = Op(IF inNav THEN "navLinkClick" ELSE "anchorClick", t, frag)
  /\ UNCHANGED <<impl, noMotion, present, markup, focus>>
  /\ UNCHANGED <<stickyVars, tabVars, formVars, revealVars, meterVars, activeVars>>

\* Click on a link.  inNav: the link is inside the navigation panel;
\* otherwise it is a link elsewhere on the page ("link").
\* Listeners run in registration order: the panel links' close (section 1),
\* the anchor listener (section 4), then, bubbling, the document's click
\* listener (section 1), which closes for a target outside trigger and panel.
AnchorClick(inNav, frag, t) ==
  LET found == frag = "target"
      \* is-open as the anchor listener reads it, after the link's close
      openNow == IF inNav /\ NavActive THEN FALSE ELSE navOpen
      needToggle == found /\ "mobile-nav" \in present /\ openNow
      throws == needToggle /\ "menu-toggle" \notin present
      \* toggle.click() runs the trigger's listener, which opens when the
      \* expanded indicator is not "true"
      reopens == needToggle /\ NavActive /\ expanded # "true" /\ "nav-link" \in present
      afterToggle == IF reopens THEN Schedule("navFocus", NavFocusDelay, 0) ELSE timers
  IN
  /\ inNav => "mobile-nav" \in present /\ "nav-link" \in present
  /\ ~inNav => "link" \in present
  /\ t \in Targets
  /\ ~found => t = 1
  /\ found => Len(timers) + (IF reopens THEN 1 ELSE 0) < MaxTimers
  /\ prevented' = found
  /\ thrown' = (thrown \/ throws)
  /\ IF NavActive THEN close ELSE UNCHANGED navVars
  /\ IF found /\ ~throws
       THEN /\ scrolledTo' = t
            /\ targetTabindex' = [targetTabindex EXCEPT ![t] = IF @ = "none" THEN "-1" ELSE @]
            /\ timers' = Append(afterToggle,
                                [kind |-> "anchorFocus",
                                 delay |-> IF noMotion THEN 0 ELSE AnchorFocusDelay,
                                 arg |-> t])
       ELSE UNCHANGED <<scrolledTo, targetTabindex, timers>>
  /\ lastOp' = Op(IF inNav THEN "navLinkClick" ELSE "anchorClick", t, frag)
  /\ UNCHANGED <<impl, noMotion, present, markup, focus>>
  /\ UNCHANGED <<stickyVars, tabVars, formVars, revealVars, meterVars, activeVars>>

\* The deferred target.focus({preventScroll: true}).
AnchorFocusTimer(k) ==
  /\ CanFire(k)
  /\ timers[k].kind = "anchorFocus"
  /\ timers' = Without(k)
  /\ focus' = <<"target", timers[k].arg>>
  /\ lastOp' = Op("anchorFocusTimer", timers[k].arg, "")
  /\ UNCHANGED <<impl, noMotion, present, markup, thrown>>
  /\ UNCHANGED <<navVars, anchorVars, stickyVars, tabVars, formVars, revealVars, meterVars, activeVars>>

\* ---------------------------------------------------------- 3. tab group
TabIdx == 0..(tabCount - 1)
Keys == {"ArrowRight", "ArrowDown", "ArrowLeft", "ArrowUp", "Home", "End", "Enter"}
Undefined == -1

\* The index the keydown listener of tab i computes for a key; Undefined
\* for a key it does not handle.
NextIndexNoWrap(i, key, n) ==
  IF key \in {"ArrowRight", "ArrowDown"} THEN (IF i + 1 < n THEN i + 1 ELSE i)
  ELSE IF key \in {"ArrowLeft", "ArrowUp"} THEN (IF i > 0 THEN i - 1 ELSE i)
  ELSE IF key = "Home" THEN 0
  ELSE IF key = "End" THEN n - 1
  ELSE Undefined

NextIndex(i, key, n) ==
  IF key \in {"ArrowRight", "ArrowDown"} THEN (i + 1) % n
  ELSE IF key \in {"ArrowLeft", "ArrowUp"} THEN (i - 1 + n) % n
  ELSE IF key = "Home" THEN 0
  ELSE IF key = "End" THEN n - 1
  ELSE Undefined

\* activate(i) with the panel loop hiding nothing.
activateKeepPanels(i) ==
  /\ ariaSelected' = [j \in TabIdx |-> IF j = i THEN "true" ELSE "false"]
  /\ tabindex' = [j \in TabIdx |-> IF j = i THEN "0" ELSE "-1"]
  /\ panelHidden' = [j \in TabIdx |-> IF j \in panels /\ j = i THEN FALSE ELSE panelHidden[j]]
  /\ panelActive' = [j \in TabIdx |-> IF j \in panels /\ j = i THEN TRUE ELSE panelActive[j]]

\* activate(i) that leaves the tabindex attributes alone.
activateKeepTabindex(i) ==
  /\ ariaSelected' = [j \in TabIdx |-> IF j = i THEN "true" ELSE "false"]
  /\ UNCHANGED tabindex
  /\ panelHidden' = [j \in TabIdx |-> IF j \in panels THEN j # i ELSE panelHidden[j]]
  /\ panelActive' = [j \in TabIdx |-> IF j \in panels THEN j = i ELSE panelActive[j]]

\* activate(i) / activateTab(activeIndex): a panel that was not found is
\* skipped.
activate(i) ==
  /\ ariaSelected' = [j \in TabIdx |-> IF j = i THEN "true" ELSE "false"]
  /\ tabindex' = [j \in TabIdx |-> IF j = i THEN "0" ELSE "-1"]
  /\ panelHidden' = [j \in TabIdx |-> IF j \in panels THEN j # i ELSE panelHidden[j]]
  /\ panelActive' = [j \in TabIdx |-> IF j \in panels THEN j = i ELSE panelActive[j]]

\* Click on tab i: its listener, then the document's click listener.  The
\* listener does not focus; whether the pointer click focuses the tab is
\* the browser's choice.
TabClick(i) ==
  /\ i \in TabIdx
  /\ activate(i)
  /\ DocumentClickOutside
  /\ focus' \in {focus, <<"tab", i>>}
  /\ lastOp' = Op("tabClick", i, "")
  /\ UNCHANGED <<impl, noMotion, present, markup, timers, thrown, tabCount, panels>>
  /\ UNCHANGED <<anchorVars, stickyVars, formVars, revealVars, meterVars, activeVars>>

\* The keydown listener without tabs[next].focus().
TabKeydownNoFocus(i, key) ==
  LET next == NextIndex(i, key, tabCount) IN
  /\ i \in TabIdx
  /\ focus = <<"tab", i>>
  /\ IF next # Undefined
       THEN activate(next)
       ELSE UNCHANGED <<ariaSelected, tabindex, panelHidden, panelActive>>
  /\ UNCHANGED focus
  /\ lastOp' = Op("tabKeydown", i, key)
  /\ UNCHANGED <<impl, noMotion, present, markup, timers, thrown, tabCount, panels>>
  /\ UNCHANGED <<navVars, anchorVars, stickyVars, formVars, revealVars, meterVars, activeVars>>

\* keydown on tab i, which holds the focus.
TabKeydown(i, key) ==
  LET next == NextIndex(i, key, tabCount) IN
  /\ i \in TabIdx
  /\ focus = <<"tab", i>>
  /\ IF next # Undefined
       THEN activate(next) /\ focus' = <<"tab", next>>
       ELSE UNCHANGED <<ariaSelected, tabindex, panelHidden, panelActive, focus>>
  /\ lastOp' = Op("tabKeydown", i, key)
  /\ UNCHANGED <<impl, noMotion, present, markup, timers, thrown, tabCount, panels>>
  /\ UNCHANGED <<navVars, anchorVars, stickyVars, formVars, revealVars, meterVars, activeVars>>

\* Sequential keyboard navigation reaches a tab whose tabindex is not -1.
TabFocus(i) ==
  /\ i \in TabIdx
  /\ tabindex[i] # "-1"
  /\ focus' = <<"tab", i>>
  /\ lastOp' = Op("tabFocus", i, "")
  /\ UNCHANGED <<impl, noMotion, present, markup, timers, thrown>>
  /\ UNCHANGED <<navVars, anchorVars, stickyVars, tabVars, formVars, revealVars, meterVars, activeVars>>

\* ------------------------------------------------------ 2. sticky bar
StickyActive == "sticky-cta" \in present /\ "hero" \in present

\* The entries one observer callback receives for the hero: 1..MaxEntries
\* isIntersecting values.
BoolSeqs(n) == UNION {[1..m -> BOOLEAN] : m \in 1..n}

\* entries.forEach that shows the bar while the hero intersects.
RECURSIVE StickyForEachSame(_, _)
StickyForEachSame(vis, entries) ==
  IF entries = <<>> THEN vis ELSE StickyForEachSame(Head(entries), Tail(entries))

\* entries.forEach(e => bar.classList.toggle('is-visible', !e.isIntersecting))
RECURSIVE StickyForEach(_, _)
StickyForEach(vis, entries) ==
  IF entries = <<>> THEN vis ELSE StickyForEach(~Head(entries), Tail(entries))

\* The hero's IntersectionObserver callback; it runs only while the
\* observer observes the hero.
StickyCallback(entries) ==
  /\ stickyObserving
  /\ barVisible' = StickyForEach(barVisible, entries)
  /\ lastOp' = Op("stickyCallback", Len(entries), IF entries[Len(entries)] THEN "in" ELSE "out")
  /\ UNCHANGED <<ctaFlag, stickyObserving, dismissListener>>
  /\ UNCHANGED <<impl, noMotion, present, markup, focus, timers, thrown>>
  /\ UNCHANGED <<navVars, anchorVars, tabVars, formVars, revealVars, meterVars, activeVars>>

\* The dismiss listener's body without io.disconnect().
DismissKeepObserving ==
  /\ barVisible' = FALSE
  /\ ctaFlag' = "set"
  /\ UNCHANGED stickyObserving

\* The dismiss listener's body.
Dismiss ==
  /\ barVisible' = FALSE
  /\ ctaFlag' = "set"
  /\ stickyObserving' = FALSE

\* Click on the dismiss control, then the document's click listener.
DismissClick ==
  /\ dismissListener
  /\ Dismiss
  /\ DocumentClickOutside
  /\ lastOp' = Op("dismissClick", 0, "")
  /\ UNCHANGED <<dismissListener, impl, noMotion, present, markup, focus, timers, thrown>>
  /\ UNCHANGED <<anchorVars, tabVars, formVars, revealVars, meterVars, activeVars>>

\* ---------------------------------------------------- 7. scroll reveal
RevealEls == 1..NumReveal

\* The entries of one reveal callback: 1..MaxEntries pairs of an observed
\* element and its isIntersecting.
RevealEntries(obs) == UNION {[1..m -> obs \X BOOLEAN] : m \in 1..MaxEntries}

\* entries.forEach of the reveal observer that never unobserves.
RECURSIVE RevealForEachKeep(_, _)
RevealForEachKeep(st, entries) ==
  IF entries = <<>> THEN st
  ELSE LET e == Head(entries) IN
       RevealForEachKeep(
         IF e[2] THEN [st EXCEPT !.revealed = @ \cup {e[1]}] ELSE st,
         Tail(entries))

\* entries.forEach: an intersecting target gains the revealed class and is
\* unobserved.
RECURSIVE RevealForEach(_, _)
RevealForEach(st, entries) ==
  IF entries = <<>> THEN st
  ELSE LET e == Head(entries) IN
       RevealForEach(
         IF e[2] THEN [revealed |-> st.revealed \cup {e[1]}, observed |-> st.observed \ {e[1]}]
                 ELSE st,
         Tail(entries))

\* The reveal observer's callback, for entries of observed elements.
RevealCallback(entries) ==
  LET st == RevealForEach([revealed |-> revealed, observed |-> revealObserved], entries) IN
  /\ revealObserved # {}
  /\ revealed' = st.revealed
  /\ revealObserved' = st.observed
  /\ lastOp' = Op("revealCallback", entries[1][1], "")
  /\ UNCHANGED <<styleInjected, revealClass>>
  /\ UNCHANGED <<impl, noMotion, present, markup, focus, timers, thrown>>
  /\ UNCHANGED <<navVars, anchorVars, stickyVars, tabVars, formVars, meterVars, activeVars>>

\* --------------------------------------------------- 6. score meters
MeterDelay == IF impl = "main" THEN MeterDelayMain ELSE MeterDelayPart

\* The entries of one callback of an observer: 1..MaxEntries pairs of an
\* observed target and its isIntersecting.
Entries(obs) == UNION {[1..m -> obs \X BOOLEAN] : m \in 1..MaxEntries}

\* entries.forEach of the meter observer that keeps observing.
RECURSIVE MeterForEachKeep(_, _)
MeterForEachKeep(st, entries) ==
  IF entries = <<>> THEN st
  ELSE LET e == Head(entries) IN
       MeterForEachKeep(
         IF e[2] THEN [st EXCEPT !.timers =
                          Append(@, [kind |-> "meter", delay |-> MeterDelay, arg |-> e[1]])]
                 ELSE st,
         Tail(entries))

\* entries.forEach: an intersecting meter gets its restore scheduled and is
\* unobserved.
RECURSIVE MeterForEach(_, _)
MeterForEach(st, entries) ==
  IF entries = <<>> THEN st
  ELSE LET e == Head(entries) IN
       MeterForEach(
         IF e[2] THEN [timers |-> Append(st.timers,
                                         [kind |-> "meter", delay |-> MeterDelay, arg |-> e[1]]),
                       observed |-> st.observed \ {e[1]}]
                 ELSE st,
         Tail(entries))

\* The meter observer's callback, for entries of observed meters.
MeterCallback(entries) ==
  LET st == MeterForEach([timers |-> timers, observed |-> meterObserved], entries) IN
  /\ meterObserved # {}
  /\ Len(st.timers) <= MaxTimers
  /\ timers' = st.timers
  /\ meterObserved' = st.observed
  /\ lastOp' = Op("meterCallback", entries[1][1], IF entries[1][2] THEN "in" ELSE "out")
  /\ UNCHANGED <<meterWidth, meterTransition, meterTargets>>
  /\ UNCHANGED <<impl, noMotion, present, markup, focus, thrown>>
  /\ UNCHANGED <<navVars, anchorVars, stickyVars, tabVars, formVars, revealVars, activeVars>>

\* The deferred restore of one meter.
MeterTimer(k) ==
  /\ CanFire(k)
  /\ timers[k].kind = "meter"
  /\ timers' = Without(k)
  /\ meterTransition' = [meterTransition EXCEPT ![timers[k].arg] = "timed"]
  /\ meterWidth' = [meterWidth EXCEPT ![timers[k].arg] = meterTargets[timers[k].arg]]
  /\ lastOp' = Op("meterTimer", timers[k].arg, "")
  /\ UNCHANGED <<meterObserved, meterTargets>>
  /\ UNCHANGED <<impl, noMotion, present, markup, focus, thrown>>
  /\ UNCHANGED <<navVars, anchorVars, stickyVars, tabVars, formVars, revealVars, activeVars>>

\* --------------------------------------------- 8. active navigation link
Links == 1..Len(markup.links)

\* links.forEach for section sec: the links whose href is '#' + sec.id.
Marked(sec) == {l \in Links : markup.links[l] = sec}

\* entries.forEach in which the first intersecting section wins.
RECURSIVE ActiveForEachFirst(_, _)
ActiveForEachFirst(cur, entries) ==
  IF entries = <<>> THEN cur
  ELSE IF Head(entries)[2] THEN Marked(Head(entries)[1])
  ELSE ActiveForEachFirst(cur, Tail(entries))

\* entries.forEach: every intersecting section rewrites the marking.
RECURSIVE ActiveForEach(_, _)
ActiveForEach(cur, entries) ==
  IF entries = <<>> THEN cur
  ELSE ActiveForEach(IF Head(entries)[2] THEN Marked(Head(entries)[1]) ELSE cur,
                     Tail(entries))

\* The section observer's callback; the history records the section of
\* the last intersecting entry.
ActiveCallback(entries) ==
  /\ activeObserving # {}
  /\ ariaCurrent' = ActiveForEach(ariaCurrent, entries)
  /\ lastOp' = LET ins == {k \in 1..Len(entries) : entries[k][2]} IN
                IF ins = {} THEN Op("activeCallback", 0, "out")
                ELSE Op("activeCallback",
                        entries[CHOOSE k \in ins : \A j \in ins : j <= k][1], "in")
  /\ UNCHANGED activeObserving
  /\ UNCHANGED <<impl, noMotion, present, markup, focus, timers, thrown>>
  /\ UNCHANGED <<navVars, anchorVars, stickyVars, tabVars, formVars, revealVars, meterVars>>

\* ---------------------------------------------------------------- 5. form
\* The registry's keys in Object.keys order, which is taken to be the
\* fields' document order too: 1 name, 2 email, 3 url, 4 consent.
Fields == 1..4
TextFields == 1..3
Consent == 4
Null == "null"
Whitespace == {" "}

\* String.prototype.trim on a sequence of characters.
RECURSIVE TrimLeft(_)
TrimLeft(v) == IF v # <<>> /\ Head(v) \in Whitespace THEN TrimLeft(Tail(v)) ELSE v

RECURSIVE TrimRight(_)
TrimRight(v) ==
  IF v # <<>> /\ v[Len(v)] \in Whitespace THEN TrimRight(SubSeq(v, 1, Len(v) - 1)) ELSE v

\* String.prototype.trim that removes nothing.
TrimNone(v) == v

Trim(v) == TrimRight(TrimLeft(v))

\* The pattern without its last segment: /^[^\s@]+@[^\s@]+$/.test(v)
EmailRegexTestNoTld(v) ==
  \E i \in 1..Len(v) :
    /\ 1 < i /\ i < Len(v)
    /\ v[i] = "@"
    /\ \A k \in 1..Len(v) : k # i => v[k] \notin (Whitespace \cup {"@"})

\* /^[^\s@]+@[^\s@]+\.[^\s@]+$/.test(v)
EmailRegexTest(v) ==
  \E i \in 1..Len(v) : \E j \in 1..Len(v) :
    /\ 1 < i /\ i + 1 < j /\ j < Len(v)
    /\ v[i] = "@" /\ v[j] = "."
    /\ \A k \in 1..Len(v) : k # i => v[k] \notin (Whitespace \cup {"@"})

\* new URL(v).protocol without the colon, or "throws", for values over
\* lower-case letters, ':', '/', '.' and spaces.  The parser strips the
\* surrounding spaces and needs a scheme of letters before the first ':'.
\* After a special scheme it skips any slashes and needs a host, the text
\* up to the next '/', that is not empty and holds no space; after another
\* scheme only a host announced by "//" is parsed, and it may be empty.
SchemeChars == {"a", "b", "c", "f", "h", "m", "o", "p", "s", "t", "x"}
SpecialSchemes == {<<"h", "t", "t", "p">>, <<"h", "t", "t", "p", "s">>, <<"f", "t", "p">>}

RECURSIVE SkipSlashes(_)
SkipSlashes(v) == IF v # <<>> /\ Head(v) = "/" THEN SkipSlashes(Tail(v)) ELSE v

RECURSIVE UpToSlash(_)
UpToSlash(v) == IF v = <<>> \/ Head(v) = "/" THEN <<>> ELSE <<Head(v)>> \o UpToSlash(Tail(v))

HasSpace(v) == \E k \in 1..Len(v) : v[k] \in Whitespace

\* The parser that accepts a special scheme without a host.
UrlProtocolNoHost(v) ==
  LET u == Trim(v)
      colons == {i \in 1..Len(u) : u[i] = ":"}
  IN IF colons = {} THEN <<"throws">>
     ELSE LET c == CHOOSE i \in colons : \A j \in colons : i <= j
              scheme == SubSeq(u, 1, c - 1)
          IN IF scheme = <<>> \/ \E k \in 1..Len(scheme) : scheme[k] \notin SchemeChars
               THEN <<"throws">>
             ELSE scheme

UrlProtocol(v) ==
  LET u == Trim(v)
      colons == {i \in 1..Len(u) : u[i] = ":"}
  IN IF colons = {} THEN <<"throws">>
     ELSE LET c == CHOOSE i \in colons : \A j \in colons : i <= j
              scheme == SubSeq(u, 1, c - 1)
              after == SubSeq(u, c + 1, Len(u))
              slashed == Len(after) >= 2 /\ after[1] = "/" /\ after[2] = "/"
              host == IF scheme \in SpecialSchemes THEN UpToSlash(SkipSlashes(after))
                      ELSE UpToSlash(SubSeq(after, 3, Len(after)))
          IN IF scheme = <<>> \/ \E k \in 1..Len(scheme) : scheme[k] \notin SchemeChars
               THEN <<"throws">>
             ELSE IF scheme \in SpecialSchemes
               THEN IF host = <<>> \/ HasSpace(host) THEN <<"throws">> ELSE scheme
             ELSE IF slashed /\ HasSpace(host) THEN <<"throws">>
             ELSE scheme

\* rules[id] / validators[fieldId] applied to a field's value v and, for
\* the consent box, its checked state c: Null or the message, named by
\* its kind.
HttpSchemes == {<<"h", "t", "t", "p">>, <<"h", "t", "t", "p", "s">>}

RuleMain(f, v, c) ==
  CASE f = 1 -> IF Len(Trim(v)) >= 2 THEN Null ELSE "name"
    [] f = 2 -> IF EmailRegexTest(v) THEN Null ELSE "email-format"
    [] f = 3 -> LET p == UrlProtocol(v) IN
                IF p = <<"throws">> THEN "url-format"
                ELSE IF p \in HttpSchemes THEN Null
                ELSE "url-scheme"
    [] f = 4 -> IF c THEN Null ELSE "consent"

RulePart(f, v, c) ==
  CASE f = 1 -> IF Len(Trim(v)) >= 2 THEN Null ELSE "name"
    [] f = 2 -> IF Trim(v) = <<>> THEN "email-required"
                ELSE IF EmailRegexTest(v) THEN Null ELSE "email-format"
    [] f = 3 -> IF Trim(v) = <<>> THEN "url-required"
                ELSE LET p == UrlProtocol(v) IN
                     IF p = <<"throws">> THEN "url-format"
                     ELSE IF p \in HttpSchemes THEN Null
                     ELSE "url-scheme"
    [] f = 4 -> IF c THEN Null ELSE "consent"

\* The registry with a consent rule that accepts an unchecked box.
RuleIgnoreConsent(f, v, c) ==
  IF f = 4 THEN Null
  ELSE IF impl = "main" THEN RuleMain(f, v, c) ELSE RulePart(f, v, c)

Rule(f, v, c) == IF impl = "main" THEN RuleMain(f, v, c) ELSE RulePart(f, v, c)

\* The fields' rendered validation state, as setErr reads and writes it.
FieldState == [inv |-> ariaInvalid, vis |-> errVisible, txt |-> errText]

\* setErr(id, msg) / setFieldError(fieldId, message); the error container
\* may be absent.  main.js leaves the old text when it clears, part_000
\* empties it.
setErr(st, f, msg) ==
  IF msg # Null
    THEN [inv |-> [st.inv EXCEPT ![f] = "true"],
          vis |-> [st.vis EXCEPT ![f] = (f \in errs)],
          txt |-> [st.txt EXCEPT ![f] = IF f \in errs THEN msg ELSE @]]
    ELSE [inv |-> [st.inv EXCEPT ![f] = "false"],
          vis |-> [st.vis EXCEPT ![f] = FALSE],
          txt |-> [st.txt EXCEPT ![f] = IF f \in errs /\ impl = "part" THEN "" ELSE @]]

\* validate(id) / validateField(fieldId) on field values vals and the
\* consent state c: the new rendered state.
validate(st, f, vals, c) == setErr(st, f, Rule(f, vals[f], c))

FieldIds == <<1, 2, 3, 4>>

\* fieldIds.map(validateField): every field, in order.
RECURSIVE MapValidate(_, _, _, _)
MapValidate(st, ids, vals, c) ==
  IF ids = <<>> THEN st
  ELSE MapValidate(validate(st, Head(ids), vals, c), Tail(ids), vals, c)

\* ids.every(validate) and fieldIds.find(id => !validateField(id)): the
\* fields in order up to and including the first invalid one.
RECURSIVE EveryValidate(_, _, _, _)
EveryValidate(st, ids, vals, c) ==
  IF ids = <<>> THEN st
  ELSE IF Rule(Head(ids), vals[Head(ids)], c) = Null
         THEN EveryValidate(validate(st, Head(ids), vals, c), Tail(ids), vals, c)
         ELSE validate(st, Head(ids), vals, c)

\* The validation passes of the submit listener: main.js short-circuits in
\* every(); part_000 maps over all fields, then runs find() over them again.
SubmitValidatePart(st, vals, c) ==
  EveryValidate(MapValidate(st, FieldIds, vals, c), FieldIds, vals, c)

SubmitValidateMain(st, vals, c) == EveryValidate(st, FieldIds, vals, c)

SubmitValidate(st, vals, c) ==
  IF impl = "main" THEN SubmitValidateMain(st, vals, c) ELSE SubmitValidatePart(st, vals, c)

\* ok / isValid of the submit listener.
AllValid(vals, c) == \A f \in Fields : Rule(f, vals[f], c) = Null

\* form.querySelector('[aria-invalid="true"]'): the first marked field in
\* document order, 0 for none.
LastInvalid(inv) ==
  LET marked == {f \in Fields : inv[f] = "true"} IN
  IF marked = {} THEN 0 ELSE CHOOSE f \in marked : \A g \in marked : g <= f

FirstInvalid(inv) ==
  LET marked == {f \in Fields : inv[f] = "true"} IN
  IF marked = {} THEN 0 ELSE CHOOSE f \in marked : \A g \in marked : f <= g

\* Values a user gives the fields.
FormNames == {<<"A">>, <<"A", "l">>}
FormEmails == {<<"a", "@", "b">>, <<"a", "@", "b", ".", "c">>}
FormUrls == {<<"f", "t", "p", ":", "/", "/", "x">>, <<"h", "t", "t", "p", ":", "/", "/", "x">>}
FormValues(f) == CASE f = 1 -> FormNames [] f = 2 -> FormEmails [] f = 3 -> FormUrls [] f = 4 -> {<<>>}

\* A submit event reaches the form while its fields are shown and the
\* located submit control, if any, is not disabled.
SubmitPossible ==
  /\ "form" \in present
  /\ ~groupsHidden
  /\ "submit" \in present => ~btnDisabled

\* The success branch's control update without disabling.
PendingKeepEnabled ==
  IF "submit" \in present
    THEN /\ btnDisabled' = FALSE
         /\ btnLabel' = "Sending"
         /\ btnBusy' = (impl = "part" \/ btnBusy)
    ELSE UNCHANGED <<btnDisabled, btnLabel, btnBusy>>

\* if (btn) { btn.disabled = true; btn.textContent = 'Sending...'; } and,
\* in part_000, aria-busy.
Pending ==
  IF "submit" \in present
    THEN /\ btnDisabled' = TRUE
         /\ btnLabel' = "Sending"
         /\ btnBusy' = (impl = "part" \/ btnBusy)
    ELSE UNCHANGED <<btnDisabled, btnLabel, btnBusy>>

\* The submit listener.
Submit ==
  LET st == SubmitValidate(FieldState, value, checked)
      ok == AllValid(value, checked)
      first == FirstInvalid(st.inv)
  IN
  /\ SubmitPossible
  /\ ok => Len(timers) < MaxTimers
  /\ tried' = TRUE
  /\ ariaInvalid' = st.inv
  /\ errVisible' = st.vis
  /\ errText' = st.txt
  /\ IF ~ok
       THEN /\ focus' = IF first # 0 THEN <<"field", first>> ELSE focus
            /\ UNCHANGED <<btnDisabled, btnLabel, btnBusy, timers>>
       ELSE /\ Pending
            /\ timers' = Schedule("complete", SubmitDelay, 0)
            /\ UNCHANGED focus
  /\ lastOp' = Op("submit", 0, IF ok THEN "valid" ELSE "invalid")
  /\ UNCHANGED <<value, checked, errs, btnHidden, groupsHidden, successVisible>>
  /\ UNCHANGED <<impl, noMotion, present, markup, thrown>>
  /\ UNCHANGED <<navVars, anchorVars, stickyVars, tabVars, revealVars, meterVars, activeVars>>

\* The deferred completion: hide the groups and the control, then reveal
\* and focus the success notice; success.classList throws when the notice
\* is absent.
Complete(k) ==
  /\ CanFire(k)
  /\ timers[k].kind = "complete"
  /\ timers' = Without(k)
  /\ groupsHidden' = TRUE
  /\ btnHidden' = (btnHidden \/ "submit" \in present)
  /\ IF "success" \in present
       THEN successVisible' = TRUE /\ focus' = <<"success", 0>> /\ UNCHANGED thrown
       ELSE thrown' = TRUE /\ UNCHANGED <<successVisible, focus>>
  /\ lastOp' = Op("complete", 0, "")
  /\ UNCHANGED <<value, checked, errs, ariaInvalid, errVisible, errText, tried,
                 btnDisabled, btnLabel, btnBusy>>
  /\ UNCHANGED <<impl, noMotion, present, markup>>
  /\ UNCHANGED <<navVars, anchorVars, stickyVars, tabVars, revealVars, meterVars, activeVars>>

\* The input listener without the test of the attempt flag: it validates
\* from the first keystroke.
InputAlways(f, v) ==
  LET vals == [value EXCEPT ![f] = v]
      st == validate(FieldState, f, vals, checked)
  IN
  /\ "form" \in present
  /\ ~groupsHidden
  /\ f \in TextFields
  /\ v \in FormValues(f)
  /\ v # value[f]
  /\ value' = vals
  /\ ariaInvalid' = st.inv
  /\ errVisible' = st.vis
  /\ errText' = st.txt
  /\ focus' = <<"field", f>>
  /\ lastOp' = Op("input", f, "")
  /\ UNCHANGED <<checked, errs, tried, btnDisabled, btnLabel, btnBusy, btnHidden,
                 groupsHidden, successVisible>>
  /\ UNCHANGED <<impl, noMotion, present, markup, timers, thrown>>
  /\ UNCHANGED <<navVars, anchorVars, stickyVars, tabVars, revealVars, meterVars, activeVars>>

\* The input listener of text field f, whose value has become v: live
\* validation once a submit was attempted.
InputText(f, v) ==
  LET vals == [value EXCEPT ![f] = v]
      st == IF tried THEN validate(FieldState, f, vals, checked) ELSE FieldState
  IN
  /\ "form" \in present
  /\ ~groupsHidden
  /\ f \in TextFields
  /\ v # value[f]
  /\ value' = vals
  /\ ariaInvalid' = st.inv
  /\ errVisible' = st.vis
  /\ errText' = st.txt
  /\ focus' = <<"field", f>>
  /\ lastOp' = Op("input", f, "")
  /\ UNCHANGED <<checked, errs, tried, btnDisabled, btnLabel, btnBusy, btnHidden,
                 groupsHidden, successVisible>>
  /\ UNCHANGED <<impl, noMotion, present, markup, timers, thrown>>
  /\ UNCHANGED <<navVars, anchorVars, stickyVars, tabVars, revealVars, meterVars, activeVars>>

\* input on text field f after its value was replaced by v (a paste, an
\* autofill).
Input(f, v) ==
  /\ v \in FormValues(f)
  /\ InputText(f, v)

\* input on text field f after one character was typed at its end.
TypeChar(f, ch) ==
  /\ Len(value[f]) < MaxLen
  /\ InputText(f, Append(value[f], ch))

\* input on text field f after its last character was deleted.
DeleteChar(f) ==
  /\ value[f] # <<>>
  /\ InputText(f, SubSeq(value[f], 1, Len(value[f]) - 1))

\* change on the consent box (a click, which the document's click listener
\* sees too).
ConsentChange ==
  LET st == IF tried THEN validate(FieldState, Consent, value, ~checked) ELSE FieldState IN
  /\ "form" \in present
  /\ ~groupsHidden
  /\ checked' = ~checked
  /\ ariaInvalid' = st.inv
  /\ errVisible' = st.vis
  /\ errText' = st.txt
  /\ focus' = <<"field", Consent>>
  /\ DocumentClickOutside
  /\ lastOp' = Op("change", Consent, "")
  /\ UNCHANGED <<value, errs, tried, btnDisabled, btnLabel, btnBusy, btnHidden,
                 groupsHidden, successVisible>>
  /\ UNCHANGED <<impl, noMotion, present, markup, timers, thrown>>
  /\ UNCHANGED <<anchorVars, stickyVars, tabVars, revealVars, meterVars, activeVars>>

\* ------------------------------------------------------------ page load
\* The meters of a page with authored state m, and whether the meter IIFE
\* passes its two guards.
Meters(m) == 1..Len(m.widths)
\* The meter IIFE's guards without the motion preference.
MetersActiveAlways(m, nm) == Len(m.widths) > 0

MetersActive(m, nm) == ~nm /\ Len(m.widths) > 0

\* The state the ten IIFEs leave after a page load, for the authored state
\* m, the elements p, the motion preference nm, the session flag and n tabs.
Loaded(m, p, nm, flag, n) ==
  [focus |-> NoFocus,
   timers |-> <<>>,
   thrown |-> FALSE,
   expanded |-> IF m.open THEN "true" ELSE "false",
   toggleLabel |-> IF m.open THEN "close" ELSE "open",
   navOpen |-> m.open,
   navHidden |-> IF m.open THEN "false" ELSE "true",
   targetTabindex |-> m.ttab,
   scrolledTo |-> 0,
   prevented |-> FALSE,
   barVisible |-> FALSE,
   stickyObserving |-> ({"sticky-cta", "hero"} \subseteq p /\ flag # "set"),
   dismissListener |-> ({"sticky-cta", "hero", "dismiss"} \subseteq p /\ flag # "set"),
   ariaSelected |-> [j \in 0..(n - 1) |-> IF j = m.sel THEN "true" ELSE "false"],
   tabindex |-> [j \in 0..(n - 1) |-> IF j = m.sel THEN "0" ELSE "-1"],
   value |-> [f \in Fields |-> <<>>],
   checked |-> FALSE,
   ariaInvalid |-> [f \in Fields |-> "none"],
   errVisible |-> [f \in Fields |-> FALSE],
   errText |-> [f \in Fields |-> ""],
   styleInjected |-> ~nm,
   revealClass |-> IF nm THEN {} ELSE 1..m.reveals,
   revealObserved |-> IF nm THEN {} ELSE 1..m.reveals,
   meterWidth |-> IF MetersActive(m, nm) THEN [j \in Meters(m) |-> "0%"] ELSE m.widths,
   meterTransition |-> [j \in Meters(m) |-> IF MetersActive(m, nm) THEN "none" ELSE "authored"],
   meterObserved |-> IF MetersActive(m, nm) THEN Meters(m) ELSE {},
   meterTargets |-> IF MetersActive(m, nm) THEN m.widths ELSE <<>>,
   ariaCurrent |-> m.current,
   activeObserving |-> IF Len(m.links) > 0 /\ m.sections # {} THEN m.sections ELSE {}]

\* The initial state for one choice of the page: which file is loaded, the
\* motion preference, the elements present, the authored state, the
\* session flag, the number of tabs, the panels and error containers found.
InitPage(i, nm, p, m, flag, n, ps, es) ==
  LET s == Loaded(m, p, nm, flag, n) IN
  /\ impl = i /\ noMotion = nm /\ present = p /\ markup = m
  /\ focus = s.focus /\ timers = s.timers /\ thrown = s.thrown
  /\ lastOp = Op("load", 0, "")
  /\ expanded = s.expanded /\ toggleLabel = s.toggleLabel
  /\ navOpen = s.navOpen /\ navHidden = s.navHidden
  /\ targetTabindex = s.targetTabindex /\ scrolledTo = s.scrolledTo
  /\ prevented = s.prevented
  /\ barVisible = s.barVisible /\ ctaFlag = flag
  /\ stickyObserving = s.stickyObserving /\ dismissListener = s.dismissListener
  /\ tabCount = n /\ panels = ps
  /\ ariaSelected = s.ariaSelected /\ tabindex = s.tabindex
  /\ panelHidden = [j \in 0..(n - 1) |-> ~(j \in ps /\ j = m.sel)]
  /\ panelActive = [j \in 0..(n - 1) |-> j \in ps /\ j = m.sel]
  /\ value = s.value /\ checked = s.checked /\ errs = es
  /\ ariaInvalid = s.ariaInvalid /\ errVisible = s.errVisible /\ errText = s.errText
  /\ tried = FALSE /\ btnDisabled = FALSE /\ btnLabel = "Send" /\ btnBusy = FALSE
  /\ btnHidden = FALSE /\ groupsHidden = FALSE /\ successVisible = FALSE
  /\ styleInjected = s.styleInjected /\ revealClass = s.revealClass
  /\ revealed = {} /\ revealObserved = s.revealObserved
  /\ meterWidth = s.meterWidth /\ meterTransition = s.meterTransition
  /\ meterObserved = s.meterObserved /\ meterTargets = s.meterTargets
  /\ ariaCurrent = s.ariaCurrent /\ activeObserving = s.activeObserving

\* The page is loaded again in the same session: every IIFE runs on the
\* authored document; only sessionStorage survives.
Reload ==
  LET s == Loaded(markup, present, noMotion, ctaFlag, tabCount) IN
  /\ focus' = s.focus /\ timers' = s.timers /\ thrown' = s.thrown
  /\ lastOp' = Op("reload", 0, "")
  /\ expanded' = s.expanded /\ toggleLabel' = s.toggleLabel
  /\ navOpen' = s.navOpen /\ navHidden' = s.navHidden
  /\ targetTabindex' = s.targetTabindex /\ scrolledTo' = s.scrolledTo
  /\ prevented' = s.prevented
  /\ barVisible' = s.barVisible
  /\ stickyObserving' = s.stickyObserving /\ dismissListener' = s.dismissListener
  /\ ariaSelected' = s.ariaSelected /\ tabindex' = s.tabindex
  /\ panelHidden' = [j \in TabIdx |-> ~(j \in panels /\ j = markup.sel)]
  /\ panelActive' = [j \in TabIdx |-> j \in panels /\ j = markup.sel]
  /\ value' = s.value /\ checked' = s.checked
  /\ ariaInvalid' = s.ariaInvalid /\ errVisible' = s.errVisible /\ errText' = s.errText
  /\ tried' = FALSE /\ btnDisabled' = FALSE /\ btnLabel' = "Send" /\ btnBusy' = FALSE
  /\ btnHidden' = FALSE /\ groupsHidden' = FALSE /\ successVisible' = FALSE
  /\ styleInjected' = s.styleInjected /\ revealClass' = s.revealClass
  /\ revealed' = {} /\ revealObserved' = s.revealObserved
  /\ meterWidth' = s.meterWidth /\ meterTransition' = s.meterTransition
  /\ meterObserved' = s.meterObserved /\ meterTargets' = s.meterTargets
  /\ ariaCurrent' = s.ariaCurrent /\ activeObserving' = s.activeObserving
  /\ UNCHANGED <<impl, noMotion, present, markup, ctaFlag, tabCount, panels, errs>>

NoTargets == [t \in Targets |-> "none"]
PlainMarkup ==
  [open |-> FALSE, sel |-> 0, ttab |-> NoTargets,
   reveals |-> NumReveal, widths |-> <<>>, links |-> <<>>, sections |-> {},
   current |-> {}]

\* ------------------------------------------------------- specifications
\* A page with a tab group of 1..MaxTabs tabs, any one of them authored as
\* selected with its panel shown, any of the other panels missing.
InitTabs ==
  \E i \in Impls, n \in 1..MaxTabs :
    \E sel \in 0..(n - 1), ps \in SUBSET (0..(n - 1)) :
      /\ sel \in ps
      /\ InitPage(i, FALSE, {}, [PlainMarkup EXCEPT !.sel = sel], "unset", n, ps, {})

NextTabs ==
  \/ \E i \in 0..(MaxTabs - 1) : TabClick(i)
  \/ \E i \in 0..(MaxTabs - 1), key \in Keys : TabKeydown(i, key)
  \/ \E i \in 0..(MaxTabs - 1) : TabFocus(i)

SpecTabs == InitTabs /\ [][NextTabs]_vars

\* A page with the navigation disclosure and same-page links.
NavElements == {"menu-toggle", "mobile-nav", "nav-link"}

InitNav ==
  \E i \in Impls, nm \in BOOLEAN, p \in SUBSET NavElements, o \in BOOLEAN :
    /\ "nav-link" \in p => "mobile-nav" \in p
    /\ \E tt \in {NoTargets, [NoTargets EXCEPT ![1] = "0"]} :
         InitPage(i, nm, p \cup {"link"}, [PlainMarkup EXCEPT !.open = o, !.ttab = tt],
                  "unset", 0, {}, {})

NextNav ==
  \/ ToggleClick
  \/ EscapeKey
  \/ OutsideClick
  \/ \E k \in 1..MaxTimers : NavFocusTimer(k)
  \/ \E inNav \in BOOLEAN, frag \in Fragments, t \in Targets : AnchorClick(inNav, frag, t)
  \/ \E k \in 1..MaxTimers : AnchorFocusTimer(k)

SpecNav == InitNav /\ [][NextNav]_vars

\* A page with the audit form.
FormElements == {"form", "success", "submit"}

InitForm ==
  \E i \in Impls, p \in SUBSET FormElements, es \in {Fields, Fields \ {1}, {}} :
    InitPage(i, FALSE, p, PlainMarkup, "unset", 0, {}, es)

NextForm ==
  \/ Submit
  \/ \E k \in 1..MaxTimers : Complete(k)
  \/ \E f \in TextFields : \E v \in FormValues(f) : Input(f, v)
  \/ ConsentChange

SpecForm == InitForm /\ [][NextForm]_vars

\* The validators, one at a time, on a page that holds the whole form:
\* the field's value is typed and deleted character by character over a
\* small alphabet (or, for the URL, replaced by a value put together from
\* parts), and submits switch the live validation on.
NameChars == {"A", "l", " "}
EmailChars == {"a", "@", ".", " "}

UrlPads == {<<>>, <<" ">>}
UrlSchemes == {<<>>, <<"h", "t", "t", "p">>, <<"h", "t", "t", "p", "s">>,
               <<"f", "t", "p">>, <<"x">>}
UrlSeps == {<<>>, <<":">>, <<":", "/", "/">>}
UrlHosts == {<<>>, <<"x">>, <<"x", ".", "c", "o", "m">>, <<"x", " ", "y">>}
UrlParts == UrlPads \X UrlSchemes \X UrlSeps \X UrlHosts
UrlOf(parts) == parts[1] \o parts[2] \o parts[3] \o parts[4] \o parts[1]
UrlInputs == {UrlOf(parts) : parts \in UrlParts}

InitValidators ==
  \E i \in Impls : InitPage(i, FALSE, FormElements, PlainMarkup, "unset", 0, {}, Fields)

NextName ==
  \/ Submit
  \/ \E ch \in NameChars : TypeChar(1, ch)
  \/ DeleteChar(1)

SpecName == InitValidators /\ [][NextName]_vars

NextEmail ==
  \/ Submit
  \/ \E ch \in EmailChars : TypeChar(2, ch)
  \/ DeleteChar(2)

SpecEmail == InitValidators /\ [][NextEmail]_vars

NextUrl ==
  \/ Submit
  \/ \E v \in UrlInputs : InputText(3, v)

SpecUrl == InitValidators /\ [][NextUrl]_vars

\* A page with the scroll-driven components: sticky bar and reveal.
ScrollElements == {"sticky-cta", "hero", "dismiss"}

InitScroll ==
  \E i \in Impls, nm \in BOOLEAN, p \in SUBSET ScrollElements :
    InitPage(i, nm, p, PlainMarkup, "unset", 0, {}, {})

NextScroll ==
  \/ \E entries \in BoolSeqs(MaxEntries) : StickyCallback(entries)
  \/ DismissClick
  \/ \E entries \in RevealEntries(revealObserved) : RevealCallback(entries)
  \/ Reload

SpecScroll == InitScroll /\ [][NextScroll]_vars

\* Pages with up to NumMeters meters, NumReveal reveal elements and
\* NumSections sections, at most one of the three kinds with more than one
\* element, and the primary navigation links.  A link's href names a
\* section (by its number) or something else (0); two links name the first
\* section.  The first meter may have no authored width.
Widths == {"", "72%"}
LinkHrefs == [l \in 1..NumLinks |-> l % (NumSections + 1)]
ScrollPages ==
  {[PlainMarkup EXCEPT !.widths = w, !.reveals = r, !.links = LinkHrefs, !.sections = 1..ns] :
     w \in {[j \in 1..n |-> IF j = 1 THEN first ELSE "72%"] :
              n \in 0..NumMeters, first \in Widths},
     r \in 0..NumReveal,
     ns \in 0..NumSections}

ManyOfOneKind(m) ==
  Cardinality({k \in {"meters", "reveals", "sections"} :
                 (CASE k = "meters" -> Len(m.widths)
                    [] k = "reveals" -> m.reveals
                    [] k = "sections" -> Cardinality(m.sections)) > 1}) <= 1

InitObservers ==
  \E i \in Impls, nm \in BOOLEAN, m \in ScrollPages :
    /\ ManyOfOneKind(m)
    /\ InitPage(i, nm, {}, m, "unset", 0, {}, {})

NextObservers ==
  \/ \E entries \in Entries(meterObserved) : MeterCallback(entries)
  \/ \E k \in 1..MaxTimers : MeterTimer(k)
  \/ \E entries \in RevealEntries(revealObserved) : RevealCallback(entries)
  \/ \E entries \in Entries(activeObserving) : ActiveCallback(entries)

SpecObservers == InitObservers /\ [][NextObservers]_vars

\* The meters alone, on the pages that hold nothing else that scrolls.
InitMeters ==
  \E i \in Impls, nm \in BOOLEAN, m \in ScrollPages :
    /\ m.reveals = 0 /\ m.sections = {}
    /\ InitPage(i, nm, {}, m, "unset", 0, {}, {})

NextMeters ==
  \/ \E entries \in Entries(meterObserved) : MeterCallback(entries)
  \/ \E k \in 1..MaxTimers : MeterTimer(k)

SpecMeters == InitMeters /\ [][NextMeters]_vars

\* The browser runs every timer that is due.
SpecMetersFair == SpecMeters /\ WF_vars(\E k \in 1..MaxTimers : MeterTimer(k))

\* Every component that defers work, each on a page of its own: the
\* navigation with a link elsewhere on the page, the whole form, the
\* meters.  The browser runs every timer that is due.
InitTimers ==
  \E i \in Impls :
    \/ \E nm \in BOOLEAN :
         InitPage(i, nm, NavElements \cup {"link"}, PlainMarkup, "unset", 0, {}, {})
    \/ InitPage(i, FALSE, FormElements, PlainMarkup, "unset", 0, {}, Fields)
    \/ InitPage(i, FALSE, {},
                [PlainMarkup EXCEPT !.reveals = 0,
                                    !.widths = [j \in 1..NumMeters |-> "72%"]],
                "unset", 0, {}, {})

NextTimers ==
  \/ ToggleClick
  \/ EscapeKey
  \/ OutsideClick
  \/ \E k \in 1..MaxTimers : NavFocusTimer(k)
  \/ \E inNav \in BOOLEAN, t \in Targets : AnchorClick(inNav, "target", t)
  \/ \E k \in 1..MaxTimers : AnchorFocusTimer(k)
  \/ NextForm
  \/ NextMeters

SpecTimers ==
  /\ InitTimers /\ [][NextTimers]_vars
  /\ WF_vars(\E k \in 1..MaxTimers : NavFocusTimer(k))
  /\ WF_vars(\E k \in 1..MaxTimers : AnchorFocusTimer(k))
  /\ WF_vars(\E k \in 1..MaxTimers : MeterTimer(k))
  /\ WF_vars(\E k \in 1..MaxTimers : Complete(k))

\* A valid submission's completion eventually runs: the browser runs every
\* timer that is due.
SpecFormFair == SpecForm /\ WF_vars(\E k \in 1..MaxTimers : Complete(k))

\* ------------------------------------------------------------- properties
SelectedTabs == {j \in TabIdx : ariaSelected[j] = "true"}
ShownPanels == {j \in panels : ~panelHidden[j]}
Selected == CHOOSE j \in TabIdx : ariaSelected[j] = "true"

\* C1 as stated: in every reachable state of a tab group exactly one tab
\* has aria-selected "true", exactly one panel is unhidden, and the two
\* have the same index.
C1_OneTabOnePanel ==
  \E i \in TabIdx : SelectedTabs = {i} /\ ShownPanels = {i}

\* C1 amended: exactly one tab has aria-selected "true"; the unhidden
\* panels are exactly the selected tab's panel when that panel exists, and
\* none when it does not.
C1_OneTabItsPanel ==
  \E i \in TabIdx : SelectedTabs = {i} /\ ShownPanels = {i} \cap panels

C1_Witness ==
  /\ lastOp.op = "tabKeydown"
  /\ tabCount >= 2
  /\ panels # {} /\ panels # TabIdx
  /\ Selected \in panels /\ ShownPanels = {Selected}
  /\ Selected # markup.sel

NextKeys == {"ArrowRight", "ArrowDown"}
PrevKeys == {"ArrowLeft", "ArrowUp"}

\* C7 as stated: a next key selects (i+1) mod n and a previous key
\* (i-1) mod n, where i is the index selected when the key is pressed.
C7_RelativeToSelected ==
  [][lastOp'.op = "tabKeydown" =>
       /\ lastOp'.k \in NextKeys => Selected' = (Selected + 1) % tabCount
       /\ lastOp'.k \in PrevKeys => Selected' = (Selected - 1) % tabCount]_vars

\* C7 amended: a next key selects (i+1) mod n and a previous key
\* (i-1) mod n, where i is the index of the tab that holds the focus and
\* receives the key; from the last tab next gives 0, from tab 0 previous
\* gives n-1, and the selected index stays within 0..n-1.
C7_RelativeToFocused ==
  [][lastOp'.op = "tabKeydown" =>
       LET i == focus[2] IN
       /\ focus[1] = "tab"
       /\ lastOp'.k \in NextKeys => Selected' = (i + 1) % tabCount
       /\ lastOp'.k \in PrevKeys => Selected' = (i - 1) % tabCount
       /\ lastOp'.k \in NextKeys /\ i = tabCount - 1 => Selected' = 0
       /\ lastOp'.k \in PrevKeys /\ i = 0 => Selected' = tabCount - 1
       /\ SelectedTabs' = {Selected'}
       /\ Selected' \in 0..(tabCount - 1)]_vars

C7_Witness ==
  /\ lastOp.op = "tabKeydown"
  /\ lastOp.k = "ArrowRight"
  /\ tabCount >= 3
  /\ lastOp.n = tabCount - 1
  /\ ariaSelected[0] = "true"
  /\ focus = <<"tab", 0>>

\* C10: Escape while the navigation panel is open closes it (expanded
\* "false", is-open removed, aria-hidden "true") and focuses the trigger;
\* Escape while it is closed changes neither the panel nor the focus nor
\* the pending callbacks.
C10_Escape ==
  [][lastOp'.op = "escape" =>
       IF navOpen
         THEN /\ expanded' = "false" /\ ~navOpen' /\ navHidden' = "true"
              /\ focus' = <<"toggle", 0>>
         ELSE UNCHANGED <<navVars, focus, timers>>]_vars

C10_Witness ==
  /\ lastOp.op = "escape"
  /\ lastOp.k = "true"
  /\ ~navOpen
  /\ focus = <<"toggle", 0>>

\* C5: once the dismiss control was activated (the session flag is set),
\* the bar is not visible and nothing observes the hero, in this and every
\* later load of the session.
C5_DismissedStaysHidden ==
  ctaFlag = "set" => ~barVisible /\ ~stickyObserving

C5_Witness ==
  /\ ctaFlag = "set"
  /\ lastOp.op = "reload"
  /\ ScrollElements \subseteq present

\* C8: a revealed element is no longer observed and every other tracked
\* element still is; within a page load the revealed mark is never removed
\* and no element is observed again, so an element passes from not
\* revealed to revealed at most once.
C8_RevealOnce ==
  /\ [](revealed \cap revealObserved = {})
  /\ [](~noMotion => revealed \cup revealObserved = RevealEls)
  /\ [][lastOp'.op # "reload" =>
          /\ revealed \subseteq revealed'
          /\ revealObserved' \subseteq revealObserved]_vars

C8_Witness ==
  /\ lastOp.op = "revealCallback"
  /\ revealed # {}
  /\ revealObserved # {}

\* C2 as stated: after every submit each of the four fields carries the
\* outcome of its own validator on its current value, in aria-invalid and
\* in the visibility of its inline error.
C2_AllFieldsValidated ==
  lastOp.op = "submit" =>
    \A f \in Fields :
      LET bad == Rule(f, value[f], checked) # Null IN
      /\ ariaInvalid[f] = IF bad THEN "true" ELSE "false"
      /\ f \in errs => errVisible[f] = bad

C4_ValidSubmit ==
  /\ [](lastOp.op = "submit" /\ lastOp.k = "valid" =>
          /\ "submit" \in present => btnDisabled /\ btnLabel = "Sending"
          /\ \E k \in 1..Len(timers) :
               timers[k].kind = "complete" /\ timers[k].delay = 1200)
  /\ [](lastOp.op = "complete" /\ "success" \in present =>
          /\ successVisible /\ groupsHidden
          /\ "submit" \in present => btnHidden
          /\ focus = <<"success", 0>>)
  /\ [][successVisible => successVisible']_vars
  /\ [][successVisible' /\ ~successVisible => lastOp'.op = "complete"]_vars
  /\ (lastOp.op = "submit" /\ lastOp.k = "valid" /\ "success" \in present) ~> successVisible

C4_Witness ==
  /\ lastOp.op = "complete"
  /\ successVisible
  /\ btnHidden /\ btnDisabled
  /\ focus = <<"success", 0>>

\* C6 as stated: no handler and no deferred callback ever throws, whatever
\* elements are absent.
C6_NeverThrows == ~thrown

\* C11: until the bar is dismissed, after every notification about the
\* hero the bar is visible exactly when the hero, as last reported, does
\* not intersect the viewport.
C11_BarFollowsHero ==
  lastOp.op = "stickyCallback" => (barVisible <=> lastOp.k = "out")

C11_Witness ==
  /\ lastOp.op = "stickyCallback"
  /\ lastOp.n = 2
  /\ lastOp.k = "out"
  /\ barVisible
  /\ ctaFlag = "unset"

\* C12: an input event on a text field, or a change of the consent box,
\* that comes after the first submit attempt revalidates that one field -
\* its aria-invalid and its error display follow its rule on the new value -
\* and leaves every other field's indicator, error display and error text
\* as they were; before any submit attempt such an event changes no
\* indicator and no error display.
C12_LiveValidation ==
  [][lastOp'.op \in {"input", "change"} =>
       LET f == lastOp'.n
           bad == Rule(f, value'[f], checked') # Null
       IN IF tried
            THEN /\ ariaInvalid'[f] = (IF bad THEN "true" ELSE "false")
                 /\ f \in errs => errVisible'[f] = bad
                 /\ \A g \in Fields \ {f} :
                      /\ ariaInvalid'[g] = ariaInvalid[g]
                      /\ errVisible'[g] = errVisible[g]
                      /\ errText'[g] = errText[g]
            ELSE UNCHANGED <<ariaInvalid, errVisible, errText>>]_vars

C12_Witness ==
  /\ lastOp.op = "input"
  /\ lastOp.n = 1
  /\ tried
  /\ ariaInvalid[1] = "false"
  /\ ~errVisible[1]
  /\ ariaInvalid[2] = "true"
  /\ errVisible[2]

\* C13: every arrow, Home or End key press on a tab selects a tab and moves
\* the focus to the tab it selected; Home selects the first tab and End the
\* last one.
HandledKeys == NextKeys \cup PrevKeys \cup {"Home", "End"}

C13_FocusFollowsSelection ==
  [][lastOp'.op = "tabKeydown" /\ lastOp'.k \in HandledKeys =>
       /\ SelectedTabs' # {}
       /\ \A j \in SelectedTabs' : focus' = <<"tab", j>>
       /\ lastOp'.k = "Home" => SelectedTabs' = {0}
       /\ lastOp'.k = "End" => SelectedTabs' = {tabCount - 1}]_vars

C13_Witness ==
  /\ lastOp.op = "tabKeydown"
  /\ lastOp.k = "End"
  /\ lastOp.n = 0
  /\ tabCount = MaxTabs
  /\ focus = <<"tab", tabCount - 1>>
  /\ ariaSelected[tabCount - 1] = "true"

\* The length of v without its leading and trailing spaces, counted from
\* the positions of its first and last other character.
NonSpaces(v) == {k \in 1..Len(v) : v[k] \notin Whitespace}
TrimmedLen(v) ==
  IF NonSpaces(v) = {} THEN 0
  ELSE (CHOOSE k \in NonSpaces(v) : \A j \in NonSpaces(v) : j <= k)
       - (CHOOSE k \in NonSpaces(v) : \A j \in NonSpaces(v) : k <= j) + 1

\* C14: whenever the name field carries a validation result, it is an
\* error exactly when the name's length without surrounding whitespace is
\* below 2.
C14_NameRule ==
  ariaInvalid[1] # "none" =>
    (ariaInvalid[1] = "true" <=> TrimmedLen(value[1]) < 2)

C14_Witness ==
  /\ value[1] = <<" ", "A", " ">>
  /\ ariaInvalid[1] = "true"
  /\ lastOp.op = "input"

\* The parts a URL value was put together from, and whether a value of
\* these parts is a URL: it needs a scheme and a ':'; http, https and ftp
\* need a host without a space; another scheme's host, given after "//",
\* must hold no space.
PartsOf(v) == {parts \in UrlParts : UrlOf(parts) = v}
Parses(parts) ==
  /\ parts[2] # <<>>
  /\ parts[3] # <<>>
  /\ parts[2] \in SpecialSchemes => parts[4] \notin {<<>>, <<"x", " ", "y">>}
  /\ parts[2] \notin SpecialSchemes /\ parts[3] = <<":", "/", "/">> =>
       parts[4] # <<"x", " ", "y">>

\* C15 as stated: whenever the URL field carries a validation result, it
\* is valid exactly when its value is not empty, is a URL and has the
\* scheme http or https; a URL with another scheme shows the scheme error
\* and a value that is no URL shows the format error.
C15_UrlAsStated ==
  ariaInvalid[3] # "none" =>
    \A parts \in PartsOf(value[3]) :
      /\ ariaInvalid[3] = "false" <=>
           (value[3] # <<>> /\ Parses(parts) /\ parts[2] \in HttpSchemes)
      /\ Parses(parts) /\ parts[2] \notin HttpSchemes =>
           ariaInvalid[3] = "true" /\ errText[3] = "url-scheme"
      /\ ~Parses(parts) => ariaInvalid[3] = "true" /\ errText[3] = "url-format"

\* C15: as above, except that part_000 shows its own "required" error, not
\* the format error, for a value that is empty or only whitespace.
C15_UrlValidator ==
  ariaInvalid[3] # "none" =>
    \A parts \in PartsOf(value[3]) :
      /\ ariaInvalid[3] = "false" <=>
           (value[3] # <<>> /\ Parses(parts) /\ parts[2] \in HttpSchemes)
      /\ Parses(parts) /\ parts[2] \notin HttpSchemes =>
           ariaInvalid[3] = "true" /\ errText[3] = "url-scheme"
      /\ ~Parses(parts) =>
           /\ ariaInvalid[3] = "true"
           /\ errText[3] = IF impl = "part" /\ NonSpaces(value[3]) = {}
                             THEN "url-required" ELSE "url-format"

C15_Witness ==
  /\ value[3] = <<"f", "t", "p", ":", "/", "/", "x", ".", "c", "o", "m">>
  /\ ariaInvalid[3] = "true"
  /\ errText[3] = "url-scheme"
  /\ errVisible[3]

\* The shape local@domain.tld: one '@' and no whitespace, text before the
\* '@', and after it a '.' that is neither the first nor the last
\* character.
Count(v, ch) == Cardinality({k \in 1..Len(v) : v[k] = ch})
AfterAt(v) ==
  LET at == CHOOSE k \in 1..Len(v) : v[k] = "@" IN SubSeq(v, at + 1, Len(v))
EmailShape(v) ==
  /\ Count(v, "@") = 1
  /\ Count(v, " ") = 0
  /\ v[1] # "@"
  /\ \E k \in 2..(Len(AfterAt(v)) - 1) : AfterAt(v)[k] = "."

\* C16: whenever the email field carries a validation result, it is valid
\* exactly when its value is not empty and has the shape local@domain.tld.
C16_EmailRule ==
  ariaInvalid[2] # "none" =>
    (ariaInvalid[2] = "false" <=> value[2] # <<>> /\ EmailShape(value[2]))

C16_Witness ==
  /\ value[2] = <<"a", "@", "a", ".", "a">>
  /\ ariaInvalid[2] = "false"
  /\ lastOp.op = "input"

\* C17: after every tab activation - a click, or a handled key press -
\* exactly one tab has tabindex "0", it is the tab with aria-selected
\* "true", and every other tab has tabindex "-1" and aria-selected "false".
C17_RovingTabindex ==
  lastOp.op = "tabClick" \/ (lastOp.op = "tabKeydown" /\ lastOp.k \in HandledKeys) =>
    \E i \in TabIdx :
      /\ tabindex[i] = "0" /\ ariaSelected[i] = "true"
      /\ \A j \in TabIdx \ {i} : tabindex[j] = "-1" /\ ariaSelected[j] = "false"

C17_Witness ==
  /\ lastOp.op = "tabKeydown"
  /\ lastOp.k = "ArrowLeft"
  /\ lastOp.n = 0
  /\ tabCount = MaxTabs
  /\ tabindex[tabCount - 1] = "0"
  /\ tabindex[0] = "-1"
  /\ ariaSelected[0] = "false"

\* C18: while the navigation component is active its three indicators
\* agree in every reachable state: the trigger's aria-expanded is "true"
\* exactly when the panel has the is-open class, and exactly when the
\* panel's aria-hidden is "false".
C18_NavInSync ==
  NavActive =>
    /\ expanded = "true" <=> navOpen
    /\ navOpen <=> navHidden = "false"
    /\ expanded \in {"true", "false"} /\ navHidden \in {"true", "false"}

C18_Witness ==
  /\ NavActive
  /\ lastOp.op = "toggleClick"
  /\ lastOp.k = "false"
  /\ expanded = "true"
  /\ navOpen
  /\ navHidden = "false"
  /\ ~markup.open

\* C19: with the navigation component active, a click outside the trigger
\* and the panel and a click on a link inside the panel each leave the
\* panel closed, whatever it was before; a click on the trigger flips the
\* panel's state, the document-level listener not closing it again.
C19_ClicksOnNav ==
  [][/\ lastOp'.op \in {"outsideClick", "navLinkClick"} /\ NavActive =>
          ~navOpen' /\ expanded' = "false" /\ navHidden' = "true"
     /\ lastOp'.op = "toggleClick" =>
          navOpen' = ~navOpen /\ expanded' # expanded]_vars

C19_Witness ==
  /\ NavActive
  /\ lastOp.op = "navLinkClick"
  /\ lastOp.k = "target"
  /\ ~navOpen
  /\ expanded = "false"
  /\ \E k \in 1..Len(timers) : timers[k].kind = "navFocus"

\* C20 as stated, up to the point where the focus transfer is scheduled:
\* the activation of a same-page link whose destination exists leaves the
\* navigation panel closed, leaves the destination with a tabindex
\* attribute ("-1" if it had none, else the one it had), and leaves a
\* deferred focus transfer to the destination pending.
C20_AnchorActivation ==
  [][lastOp'.op \in {"anchorClick", "navLinkClick"} /\ lastOp'.k = "target" =>
       LET t == lastOp'.n IN
       /\ "mobile-nav" \in present => ~navOpen'
       /\ targetTabindex'[t] = (IF targetTabindex[t] = "none" THEN "-1" ELSE targetTabindex[t])
       /\ \E k \in 1..Len(timers') :
            timers'[k].kind = "anchorFocus" /\ timers'[k].arg = t]_vars

\* C21: the activation of a same-page link whose fragment is empty or
\* names no element changes nothing of the anchor controller's: the
\* default navigation is not prevented, nothing is scrolled to, no tabindex
\* is assigned, no callback is scheduled and the trigger is not clicked
\* (no indicator changes but by the navigation component's own listeners,
\* and nothing throws); the default navigation is prevented exactly when
\* the destination is found.
C21_NoDestinationNoAction ==
  [][lastOp'.op \in {"anchorClick", "navLinkClick"} /\ lastOp'.k # "external" =>
       /\ prevented' <=> lastOp'.k = "target"
       /\ lastOp'.k \in {"empty", "missing"} =>
            /\ UNCHANGED <<scrolledTo, targetTabindex, timers, thrown, focus>>
            /\ ~NavActive => UNCHANGED navVars
            /\ ~navOpen => ~navOpen']_vars

C21_Witness ==
  /\ lastOp.op = "anchorClick"
  /\ lastOp.k = "missing"
  /\ ~prevented
  /\ "mobile-nav" \in present
  /\ "menu-toggle" \notin present
  /\ navOpen
  /\ ~thrown

\* Meter j has a restore pending; meter j was restored.
MeterPending(j) ==
  \E k \in 1..Len(timers) : timers[k].kind = "meter" /\ timers[k].arg = j
MeterRestored(j) ==
  /\ j \in DOMAIN meterWidth
  /\ meterTransition[j] = "timed"
  /\ meterWidth[j] = meterTargets[j]
  /\ j \notin meterObserved

\* C22: without reduced motion every meter starts at width zero; a meter's
\* width is always zero or the width captured at load; a meter that got an
\* intersecting notification is unobserved and eventually has its
\* transition re-enabled and its captured width back; and a restored meter
\* keeps its captured width.
C22_MeterRestore ==
  /\ ~noMotion => \A j \in DOMAIN meterWidth : meterWidth[j] = "0%"
  /\ [](~noMotion => \A j \in DOMAIN meterWidth : meterWidth[j] \in {"0%", meterTargets[j]})
  /\ [](\A j \in DOMAIN meterWidth : MeterPending(j) => j \notin meterObserved)
  /\ [][\A j \in DOMAIN meterWidth :
          meterTransition[j] = "timed" =>
            meterTransition'[j] = "timed" /\ meterWidth'[j] = meterTargets[j]]_vars
  /\ \A j \in 1..NumMeters : MeterPending(j) ~> MeterRestored(j)

C22_Witness ==
  /\ lastOp.op = "meterTimer"
  /\ Len(meterWidth) = NumMeters
  /\ MeterRestored(NumMeters)
  /\ meterWidth[NumMeters] = "72%"
  /\ meterWidth[1] = "0%"
  /\ 1 \in meterObserved

\* C23: under the reduced-motion preference the meters and the reveal
\* controller change nothing, whatever is scrolled: every meter keeps its
\* authored width and transition, no restore is pending, no element has
\* the reveal or the revealed class, no style is injected and neither
\* observer observes anything.
C23_ReducedMotionInert ==
  noMotion =>
    /\ meterWidth = markup.widths
    /\ \A j \in DOMAIN meterTransition : meterTransition[j] = "authored"
    /\ meterObserved = {}
    /\ \A j \in DOMAIN meterWidth : ~MeterPending(j)
    /\ ~styleInjected
    /\ revealClass = {} /\ revealed = {} /\ revealObserved = {}

C23_Witness ==
  /\ noMotion
  /\ lastOp.op = "activeCallback"
  /\ lastOp.k = "in"
  /\ Len(meterWidth) = NumMeters
  /\ meterWidth[NumMeters] = "72%"
  /\ markup.reveals = 1

\* C24: a section observer callback with an intersecting entry leaves
\* aria-current on exactly the links whose href names the section of the
\* last intersecting entry; a callback without one leaves the marking as
\* it was.
C24_ActiveLink ==
  [][lastOp'.op = "activeCallback" =>
       ariaCurrent' = (IF lastOp'.k = "in"
                         THEN {l \in Links : markup.links[l] = lastOp'.n}
                         ELSE ariaCurrent)]_vars

C24_Witness ==
  /\ lastOp.op = "activeCallback"
  /\ lastOp.k = "in"
  /\ lastOp.n = 1
  /\ Cardinality(markup.sections) > 1
  /\ Cardinality(ariaCurrent) = 2

\* The pending callbacks of one kind, and the handler that runs them.
PendingKind(kind) == \E k \in 1..Len(timers) : timers[k].kind = kind
TimerOps == {"navFocusTimer", "anchorFocusTimer", "meterTimer", "complete"}

\* C25: no deferred callback is cancelled - the pending list loses an
\* entry only when that callback runs, whatever else happens in between -
\* and every scheduled callback eventually runs: the focus after the menu
\* opened, the focus after an anchor activation, the meter restore and the
\* submission's completion.
C25_NeverCancelled ==
  /\ [][IF lastOp'.op \in TimerOps
          THEN \E k \in 1..Len(timers) : timers' = Without(k)
          ELSE /\ Len(timers') >= Len(timers)
               /\ SubSeq(timers', 1, Len(timers)) = timers]_vars
  /\ PendingKind("navFocus") ~> lastOp.op = "navFocusTimer"
  /\ PendingKind("anchorFocus") ~> lastOp.op = "anchorFocusTimer"
  /\ PendingKind("meter") ~> lastOp.op = "meterTimer"
  /\ PendingKind("complete") ~> lastOp.op = "complete"

C25_Witness ==
  /\ lastOp.op = "navFocusTimer"
  /\ ~navOpen
  /\ expanded = "false"
  /\ focus = <<"navlink", 0>>
  /\ PendingKind("anchorFocus")

\* The fields a rendered state marks invalid.
MarkedInvalid(inv) == {f \in Fields : inv[f] = "true"}

\* C26 as stated, at the first submit of a page load (until then the two
\* files have done the same, so they are in the same state): the submit
\* passes of main.js and of part_000 mark the same fields invalid and so
\* send the focus to the same field.
C26_FormsAgree ==
  [][lastOp'.op = "submit" /\ ~tried =>
       LET main == SubmitValidateMain(FieldState, value, checked).inv
           part == SubmitValidatePart(FieldState, value, checked).inv
       IN /\ ariaInvalid' \in {main, part}
          /\ MarkedInvalid(main) = MarkedInvalid(part)
          /\ FirstInvalid(main) = FirstInvalid(part)]_vars

\* C27 as stated: no step that ends with the panel closed moves the focus
\* onto the panel's first link, and after an Escape that closed the panel
\* the deferred focus of open() leaves the focus on the trigger.
C27_NoFocusIntoClosedPanel ==
  [][/\ NavActive /\ ~navOpen' /\ focus' = <<"navlink", 0>> => focus = <<"navlink", 0>>
     /\ lastOp.op = "escape" /\ lastOp.k = "true" /\ lastOp'.op = "navFocusTimer" =>
          focus' = <<"toggle", 0>>]_vars

\* C28 as stated: at most one completion is pending at any time, and a
\* completion that runs right after an invalid submit does not reveal the
\* success notice.
C28_OneCompletion ==
  /\ [](Cardinality({k \in 1..Len(timers) : timers[k].kind = "complete"}) <= 1)
  /\ [][lastOp.op = "submit" /\ lastOp.k = "invalid" /\ lastOp'.op = "complete" =>
          ~successVisible']_vars

\* C29 as stated: once no deferred focus is pending, the focus is on the
\* destination of the last activated same-page link - right after an
\* activation that left nothing pending, and after the last deferred focus
\* has run.
C29_FocusOnLastDestination ==
  ~PendingKind("anchorFocus") /\ ~PendingKind("navFocus") =>
    /\ lastOp.op \in {"anchorClick", "navLinkClick"} /\ lastOp.k = "target" =>
         focus = <<"target", lastOp.n>>
    /\ lastOp.op = "anchorFocusTimer" => focus = <<"target", scrolledTo>>

====
